---- MODULE Spec2Model ----
(***************************************************************************)
(* create-dataverse-app: the command line scaffolder.                      *)
(*                                                                         *)
(* The model follows one invocation of the bin script (the entry script    *)
(* and init() of createDataverseApp.js) through Node's run-to-completion   *)
(* steps: the synchronous part of init, the .catch and .then continuations *)
(* of the latest-version promise (the second runs createApp and spawns the *)
(* clone), the "close" event of the clone child, and the settlement of the *)
(* promise run() returns.                                                  *)
(*                                                                         *)
(* Strings the code inspects character by character (the project name,     *)
(* the names of directory entries) are sequences of one-character strings. *)
(***************************************************************************)
EXTENDS Integers, Sequences, FiniteSets, TLC

(***************************************************************************)
(* String literals                                                         *)
(***************************************************************************)
N_my_app == <<"m", "y", "-", "a", "p", "p">>

N_MyApp == <<"M", "y", "A", "p", "p">>

N_react == <<"r", "e", "a", "c", "t">>

N_react_dom == <<"r", "e", "a", "c", "t", "-", "d", "o", "m">>

N_react_scripts == <<"r", "e", "a", "c", "t", "-", "s", "c", "r", "i", "p", "t", "s">>

N_React == <<"R", "e", "a", "c", "t">>

N_REACT_DOM == <<"R", "E", "A", "C", "T", "-", "D", "O", "M">>

N_fs == <<"f", "s">>

N_http == <<"h", "t", "t", "p">>

N_dot_app == <<".", "a", "p", "p">>

N_sub_app == <<"s", "u", "b", "/", "a", "p", "p">>

N_node_modules == <<"n", "o", "d", "e", "_", "m", "o", "d", "u", "l", "e", "s">>

N_favicon_ico == <<"f", "a", "v", "i", "c", "o", "n", ".", "i", "c", "o">>

N_scoped == <<"@", "f", "s", "/", "a", "p", "p">>

N_os == <<"o", "s">>

N_path == <<"p", "a", "t", "h">>

N_util == <<"u", "t", "i", "l">>

N_events == <<"e", "v", "e", "n", "t", "s">>

N_child_process == <<"c", "h", "i", "l", "d", "_", "p", "r", "o", "c", "e", "s", "s">>

N_https == <<"h", "t", "t", "p", "s">>

F_DS_Store == <<".", "D", "S", "_", "S", "t", "o", "r", "e">>

F_git == <<".", "g", "i", "t">>

F_gitattributes == <<".", "g", "i", "t", "a", "t", "t", "r", "i", "b", "u", "t", "e", "s">>

F_gitignore == <<".", "g", "i", "t", "i", "g", "n", "o", "r", "e">>

F_gitlab_ci_yml == <<".", "g", "i", "t", "l", "a", "b", "-", "c", "i", ".", "y", "m", "l">>

F_hg == <<".", "h", "g">>

F_hgcheck == <<".", "h", "g", "c", "h", "e", "c", "k">>

F_hgignore == <<".", "h", "g", "i", "g", "n", "o", "r", "e">>

F_idea == <<".", "i", "d", "e", "a">>

F_npmignore == <<".", "n", "p", "m", "i", "g", "n", "o", "r", "e">>

F_travis_yml == <<".", "t", "r", "a", "v", "i", "s", ".", "y", "m", "l">>

F_docs == <<"d", "o", "c", "s">>

F_LICENSE == <<"L", "I", "C", "E", "N", "S", "E">>

F_README_md == <<"R", "E", "A", "D", "M", "E", ".", "m", "d">>

F_mkdocs_yml == <<"m", "k", "d", "o", "c", "s", ".", "y", "m", "l">>

F_Thumbs_db == <<"T", "h", "u", "m", "b", "s", ".", "d", "b">>

P_npm_debug_log == <<"n", "p", "m", "-", "d", "e", "b", "u", "g", ".", "l", "o", "g">>

P_yarn_error_log == <<"y", "a", "r", "n", "-", "e", "r", "r", "o", "r", ".", "l", "o", "g">>

P_yarn_debug_log == <<"y", "a", "r", "n", "-", "d", "e", "b", "u", "g", ".", "l", "o", "g">>

ImlSuffix == <<".", "i", "m", "l">>

F_app_iml == <<"a", "p", "p", ".", "i", "m", "l">>

F_yarn_error_log_1 == <<"y", "a", "r", "n", "-", "e", "r", "r", "o", "r", ".", "l", "o", "g", ".", "1">>

F_npm_debug_log_iml == <<"n", "p", "m", "-", "d", "e", "b", "u", "g", ".", "l", "o", "g", ".", "i", "m", "l">>

F_notes_txt == <<"n", "o", "t", "e", "s", ".", "t", "x", "t">>

F_src == <<"s", "r", "c">>

F_x_npm_debug_log == <<"x", "-", "n", "p", "m", "-", "d", "e", "b", "u", "g", ".", "l", "o", "g">>

F_package_json == <<"p", "a", "c", "k", "a", "g", "e", ".", "j", "s", "o", "n">>

LowerCaseLetters == {"a", "b", "c", "d", "e", "f", "g", "h", "i", "j", "k", "l", "m", "n", "o", "p", "q", "r", "s", "t", "u", "v", "w", "x", "y", "z"}

UpperCaseLetters == {"A", "B", "C", "D", "E", "F", "G", "H", "I", "J", "K", "L", "M", "N", "O", "P", "Q", "R", "S", "T", "U", "V", "W", "X", "Y", "Z"}

Digits == {"0", "1", "2", "3", "4", "5", "6", "7", "8", "9"}

toLowerCaseChar(c) ==
    CASE c = "A" -> "a"
      [] c = "B" -> "b"
      [] c = "C" -> "c"
      [] c = "D" -> "d"
      [] c = "E" -> "e"
      [] c = "F" -> "f"
      [] c = "G" -> "g"
      [] c = "H" -> "h"
      [] c = "I" -> "i"
      [] c = "J" -> "j"
      [] c = "K" -> "k"
      [] c = "L" -> "l"
      [] c = "M" -> "m"
      [] c = "N" -> "n"
      [] c = "O" -> "o"
      [] c = "P" -> "p"
      [] c = "Q" -> "q"
      [] c = "R" -> "r"
      [] c = "S" -> "s"
      [] c = "T" -> "t"
      [] c = "U" -> "u"
      [] c = "V" -> "v"
      [] c = "W" -> "w"
      [] c = "X" -> "x"
      [] c = "Y" -> "y"
      [] c = "Z" -> "z"
      [] OTHER -> c

(***************************************************************************)
(* String primitives of the JavaScript runtime                             *)
(***************************************************************************)
\* String.prototype.startsWith
startsWith(s, p) ==
    /\ Len(s) >= Len(p)
    /\ SubSeq(s, 1, Len(p)) = p

\* /<p>$/.test(s) for a literal pattern p
endsWith(s, p) ==
    /\ Len(s) >= Len(p)
    /\ SubSeq(s, Len(s) - Len(p) + 1, Len(s)) = p

\* String.prototype.toLowerCase
toLowerCase(s) == [i \in 1..Len(s) |-> toLowerCaseChar(s[i])]

\* String.prototype.trim() leaves s unchanged
isTrimmed(s) == Len(s) = 0 \/ (s[1] # " " /\ s[Len(s)] # " ")

\* The characters encodeURIComponent leaves as they are
UriUnreserved ==
    LowerCaseLetters \cup UpperCaseLetters \cup Digits
        \cup {"-", "_", ".", "!", "~", "*", "'", "(", ")"}

\* encodeURIComponent(s) === s
isUriEncodedSame(s) == \A i \in 1..Len(s) : s[i] \in UriUnreserved

\* The positions of "/" in s
slashPositions(s) == {i \in 1..Len(s) : s[i] = "/"}

\* s.split("/").slice(-1)[0]
lastSegment(s) ==
    IF slashPositions(s) = {} THEN s
    ELSE LET last == CHOOSE i \in slashPositions(s) :
                         \A j \in slashPositions(s) : j <= i
         IN  SubSeq(s, last + 1, Len(s))

\* path.basename(path.resolve(name)) for a relative name with no "." or ".."
\* segment and no trailing "/": the last segment of the name
basename(name) == lastSegment(name)

(***************************************************************************)
(* validate-npm-package-name, as checkAppName calls it                     *)
(***************************************************************************)
\* The longest name that draws no length warning
MaxPackageNameLength == 214

\* Names the validator refuses outright
blacklist == {N_node_modules, N_favicon_ico}

\* Node core module names (the ones the name universes can spell)
builtins ==
    {N_fs, N_http, N_https, N_os, N_path, N_util, N_events, N_child_process}

\* name.match(scopedPackagePattern) with both groups set: "@user/pkg"
isScopedName(name) ==
    /\ Len(name) >= 4
    /\ name[1] = "@"
    /\ Cardinality(slashPositions(name)) = 1
    /\ \E i \in slashPositions(name) : 3 <= i /\ i < Len(name)

scopeUser(name) ==
    LET i == CHOOSE j \in slashPositions(name) : TRUE
    IN  SubSeq(name, 2, i - 1)

\* The errors validateProjectName(name) collects
validationErrors(name) ==
    (IF Len(name) = 0 THEN {"name length must be greater than zero"} ELSE {})
    \cup (IF Len(name) > 0 /\ name[1] = "."
          THEN {"name cannot start with a period"} ELSE {})
    \cup (IF Len(name) > 0 /\ name[1] = "_"
          THEN {"name cannot start with an underscore"} ELSE {})
    \cup (IF ~isTrimmed(name)
          THEN {"name cannot contain leading or trailing spaces"} ELSE {})
    \cup (IF toLowerCase(name) \in blacklist
          THEN {"is a blacklisted name"} ELSE {})
    \cup (IF /\ ~isUriEncodedSame(name)
             /\ ~(/\ isScopedName(name)
                  /\ isUriEncodedSame(scopeUser(name))
                  /\ isUriEncodedSame(lastSegment(name)))
          THEN {"name can only contain URL-friendly characters"} ELSE {})

\* Faulty variant: capital letters draw no warning
validationWarnings_noCapitals(name) ==
    (IF toLowerCase(name) \in builtins
     THEN {"is a core module name"} ELSE {})
    \cup (IF Len(name) > MaxPackageNameLength
          THEN {"name can no longer contain more than 214 characters"} ELSE {})
    \cup (IF \E i \in 1..Len(lastSegment(name)) :
                 lastSegment(name)[i] \in {"~", "'", "!", "(", ")", "*"}
          THEN {"name can no longer contain special characters"} ELSE {})

\* The warnings validateProjectName(name) collects
validationWarnings(name) ==
    (IF toLowerCase(name) \in builtins
     THEN {"is a core module name"} ELSE {})
    \cup (IF Len(name) > MaxPackageNameLength
          THEN {"name can no longer contain more than 214 characters"} ELSE {})
    \cup (IF toLowerCase(name) # name
          THEN {"name can no longer contain capital letters"} ELSE {})
    \cup (IF \E i \in 1..Len(lastSegment(name)) :
                 lastSegment(name)[i] \in {"~", "'", "!", "(", ")", "*"}
          THEN {"name can no longer contain special characters"} ELSE {})

\* validateProjectName(name).validForNewPackages
validForNewPackages(name) ==
    validationErrors(name) = {} /\ validationWarnings(name) = {}

(***************************************************************************)
(* checkAppName                                                            *)
(***************************************************************************)
\* The names checkAppName refuses as dependencies
dependencies == {N_react, N_react_dom, N_react_scripts}

\* Faulty variant: no name is refused as a dependency
isDependencyName_none(appName) == FALSE

\* The reserved-name test of checkAppName: an exact match
isDependencyName(appName) == appName \in dependencies

\* checkAppName(appName) returns: it calls process.exit(1) otherwise
checkAppName(appName) ==
    /\ validForNewPackages(appName)
    /\ ~isDependencyName(appName)

\* What checkAppName prints before process.exit(1)
checkAppNameMessage(appName) ==
    IF ~validForNewPackages(appName)
    THEN [msg |-> "npm naming restrictions",
          details |-> validationErrors(appName) \cup validationWarnings(appName)]
    ELSE [msg |-> "a dependency with the same name exists",
          details |-> {}]

(***************************************************************************)
(* isSafeToCreateProjectIn                                                 *)
(***************************************************************************)
validFiles ==
    {F_DS_Store, F_git, F_gitattributes, F_gitignore, F_gitlab_ci_yml, F_hg,
     F_hgcheck, F_hgignore, F_idea, F_npmignore, F_travis_yml, F_docs,
     F_LICENSE, F_README_md, F_mkdocs_yml, F_Thumbs_db}

errorLogFilePatterns == {P_npm_debug_log, P_yarn_error_log, P_yarn_debug_log}

\* Faulty variant: an error log is a file named exactly as a pattern
isErrorLog_exact(file) == file \in errorLogFilePatterns

isErrorLog(file) == \E pattern \in errorLogFilePatterns : startsWith(file, pattern)

\* /\.iml$/.test(file)
isImlFile(file) == endsWith(file, ImlSuffix)

\* Faulty variant: the allow-list is not consulted
conflicts_noAllowList(entries) ==
    {file \in entries : ~isImlFile(file) /\ ~isErrorLog(file)}

\* The entries of the directory that the three filters leave
conflicts(entries) ==
    {file \in entries :
        /\ file \notin validFiles
        /\ ~isImlFile(file)
        /\ ~isErrorLog(file)}

\* The value isSafeToCreateProjectIn returns
isSafeToCreateProjectIn(entries) == conflicts(entries) = {}

\* The entries removed by the second readdirSync pass
removedErrorLogs(entries) == {file \in entries : isErrorLog(file)}

\* Faulty variant: the error logs are removed before the conflicts are looked for
afterSafetyCheck_purgeFirst(entries) == entries \ removedErrorLogs(entries)

\* The directory as isSafeToCreateProjectIn leaves it
afterSafetyCheck(entries) ==
    IF isSafeToCreateProjectIn(entries)
    THEN entries \ removedErrorLogs(entries)
    ELSE entries

(***************************************************************************)
(* semver                                                                  *)
(***************************************************************************)
\* A version is <<major, minor, patch>>
\* semver.lt(a, b) on two valid versions
semverLt(a, b) ==
    \/ a[1] < b[1]
    \/ a[1] = b[1] /\ a[2] < b[2]
    \/ a[1] = b[1] /\ a[2] = b[2] /\ a[3] < b[3]

\* semver.gte(a, b) on two valid versions
semverGte(a, b) == ~semverLt(a, b)

(***************************************************************************)
(* Program constants                                                       *)
(***************************************************************************)
\* The lowest supported major version of Node
MinNodeMajor == 16

\* The lowest npm version that draws no warning
MinNpmVersion == <<6, 0, 0>>

\* packageJson.version of the running tool (package.json is read at load)
packageJsonVersion == <<1, 0, 0>>

\* The clone command of run()
command == "git"

args ==
    <<"clone", "--quiet",
      "https://github.com/dataverse-os/create-dataverse-app.git", ".">>

\* args.join(" ")
RECURSIVE join(_)
join(a) ==
    IF Len(a) = 0 THEN ""
    ELSE IF Len(a) = 1 THEN a[1]
    ELSE a[1] \o " " \o join(Tail(a))

\* `${command} ${args.join(" ")}`: the command of the rejection reason
commandLine == command \o " " \o join(args)

(***************************************************************************)
(* Bounds and input universes                                              *)
(***************************************************************************)
\* The most entries the target directory holds before the run
MaxEntries == 2

\* The longest name of the name universe of checkAppName
MaxNameLen == 3

\* The most invocations of the tool on the same name
MaxRuns == 2

\* The project names given on the command line
ProjectNames == {N_my_app, N_MyApp, N_react, N_fs, N_dot_app, N_sub_app}

\* The entries the target directory may hold before the run
EntryUniverse ==
    {F_git, F_README_md, F_app_iml, F_yarn_error_log_1, P_npm_debug_log,
     F_npm_debug_log_iml, F_notes_txt, F_src, F_x_npm_debug_log}

\* The entries that are directories (what lstatSync reports)
DirectoryEntries == {F_git, F_src, F_docs, F_idea, F_hg}

\* What the cloned template holds
TemplateEntries == {F_git, F_package_json, F_README_md}

\* process.versions.node, its major number
NodeMajors == {14, 16}

NoVersion == <<>>

\* What "npm view create-dataverse-app version" gives: it throws (null), or
\* prints nothing, a version, or text that is no version
NpmViewResults ==
    {[kind |-> "null", v |-> NoVersion],
     [kind |-> "empty", v |-> NoVersion],
     [kind |-> "invalid", v |-> NoVersion],
     [kind |-> "version", v |-> <<0, 9, 0>>],
     [kind |-> "version", v |-> <<1, 0, 0>>],
     [kind |-> "version", v |-> <<1, 0, 1>>],
     [kind |-> "version", v |-> <<2, 0, 0>>]}

Unresolved == [kind |-> "unresolved", v |-> NoVersion]

\* What "npm config list" shows checkThatNpmCanReadCwd
NpmCwdProbes == {"spawn failed", "no cwd line", "same cwd", "other cwd"}

\* What "npm --version" gives checkNpmVersion
NpmVersionProbes ==
    {[kind |-> "missing", v |-> NoVersion],
     [kind |-> "version", v |-> <<5, 10, 0>>],
     [kind |-> "version", v |-> <<6, 0, 0>>],
     [kind |-> "version", v |-> <<9, 1, 0>>]}

Unprobed == [kind |-> "unprobed", v |-> NoVersion]

\* The child before it is spawned
NoChild ==
    [spawned |-> 0, command |-> "", args |-> <<>>, cwd |-> "", closed |-> FALSE,
     code |-> -1]

\* How the clone child may end in a directory holding `entries`: git refuses
\* a directory that is not empty; in an empty one it succeeds, fails leaving
\* nothing, or is killed (code null, here -1) leaving part of the template
\* (git writes .git before it checks any file out)
CloneEndings(entries) ==
    IF entries # {}
    THEN {[code |-> 128, written |-> {}]}
    ELSE {[code |-> 0, written |-> TemplateEntries],
          [code |-> 128, written |-> {}]}
         \cup {[code |-> -1, written |-> w] :
                  w \in {x \in (SUBSET TemplateEntries) \ {TemplateEntries} :
                            x = {} \/ F_git \in x}}

(***************************************************************************)
(* State                                                                   *)
(***************************************************************************)
VARIABLES
    run,               \* which invocation of the tool on this name: 1, 2, ...
    nodeMajor,         \* process.versions.node, major
    argv,              \* the positional arguments: <<>> or <<name>>
    info,              \* program.info
    dir,               \* the target directory: [exists, entries]
    dirAtStart,        \* the target directory when the run began
    dirAtCheck,        \* the target directory when isSafeToCreateProjectIn ran
    pc,                \* where the run is
    exitCode,          \* the process exit code, -1 while it runs
    out,               \* what was printed, in order
    cwd,               \* process.cwd(): "original" or "root"
    registry,          \* the promise of checkForLatestVersion
    gitInstalled,      \* what checkIsGitInstalled found
    fallbackInvoked,   \* execSync("npm view ...") was run
    latest,            \* the value the .then continuation receives
    createAppCalled,   \* createApp was entered
    useYarn,           \* isUsingYarn()
    npmCwd,            \* what checkThatNpmCanReadCwd saw
    npmVersion,        \* what checkNpmVersion saw
    safe,              \* what isSafeToCreateProjectIn returned
    reportedConflicts, \* the entries isSafeToCreateProjectIn listed
    child,             \* the clone child process
    runPromise         \* the promise run() returns

vars ==
    <<run, nodeMajor, argv, info, dir, dirAtStart, dirAtCheck, pc, exitCode, out,
      cwd, registry, gitInstalled, fallbackInvoked, latest, createAppCalled,
      useYarn, npmCwd, npmVersion, safe, reportedConflicts, child, runPromise>>

\* The directories the run may start with
StartDirs ==
    {[exists |-> FALSE, entries |-> {}]}
    \cup {[exists |-> TRUE, entries |-> e] :
             e \in {x \in SUBSET EntryUniverse : Cardinality(x) <= MaxEntries}}

Init ==
    /\ run = 1
    /\ nodeMajor \in NodeMajors
    /\ argv \in {<<>>} \cup {<<n>> : n \in ProjectNames}
    /\ info \in BOOLEAN
    /\ dir \in StartDirs
    /\ dirAtStart = dir
    /\ dirAtCheck = dir
    /\ pc = "start"
    /\ exitCode = -1
    /\ out = <<>>
    /\ cwd = "original"
    /\ registry = "none"
    /\ gitInstalled = "unknown"
    /\ fallbackInvoked = FALSE
    /\ latest = Unresolved
    /\ createAppCalled = FALSE
    /\ useYarn = "unknown"
    /\ npmCwd = "unprobed"
    /\ npmVersion = Unprobed
    /\ safe = "unchecked"
    /\ reportedConflicts = {}
    /\ child = NoChild
    /\ runPromise = "none"

\* What the run prints
UpgradeNotice == "You are running create-dataverse-app, which is behind the latest release"

GitMissingError == "Git is not installed. Please install git and try again."

ConflictNotice == "The directory contains files that could conflict:"

CreatingNotice == "Creating a new Dataverse app"

NpmCwdError == "Could not start an npm process in the right directory."

DoneMessage == "Done!"

NpmOldWarning == "You are using an npm older than 6; please update to npm 6 or higher"

\* The report Node gives of the TypeError semver.lt throws inside the continuation
InvalidVersionError == "TypeError: Invalid Version"

\* The report Node gives of the unhandled rejection of run(): the reason is an object
\* that is no Error, printed as "#<Object>"
UnhandledRejectionError ==
    "UnhandledPromiseRejection: The promise rejected with the reason #<Object>."

\* The run has ended
Terminated == pc = "exited"

\* process.exit(code), or the process ending with nothing left to run
exit(code, printed) ==
    /\ pc' = "exited"
    /\ exitCode' = code
    /\ out' = out \o printed

(***************************************************************************)
(* The entry script and the synchronous part of init                       *)
(***************************************************************************)
\* checkForLatestVersion(): the executor reads `https`, which the module
\* never binds, so it throws a ReferenceError and the promise is rejected
checkForLatestVersion == "rejected"

\* Faulty variant: the failure of "git --version" is swallowed
checkIsGitInstalled_noExit(git) == TRUE

\* checkIsGitInstalled() returns: it calls process.exit(1) when
\* "git --version" fails. What it returns is the version text, which init
\* compares with the string "undefined": that test is never true
checkIsGitInstalled(git) == git

Main ==
    /\ pc = "start"
    /\ \E git \in BOOLEAN :
        IF nodeMajor < MinNodeMajor
        THEN /\ exit(1, <<"You are running Node; Node 16 or higher is required">>)
             /\ UNCHANGED <<registry, gitInstalled>>
        ELSE IF info
        THEN /\ pc' = "envinfo"
             /\ out' = out \o <<"Environment Info:">>
             /\ UNCHANGED <<exitCode, registry, gitInstalled>>
        ELSE IF argv = <<>>
        THEN /\ exit(1, <<"Please specify the project directory:">>)
             /\ UNCHANGED <<registry, gitInstalled>>
        ELSE /\ registry' = checkForLatestVersion
             /\ gitInstalled' = IF git THEN "yes" ELSE "no"
             /\ IF checkIsGitInstalled(git)
                THEN /\ pc' = "catch"
                     /\ UNCHANGED <<exitCode, out>>
                ELSE exit(1, <<GitMissingError>>)
    /\ UNCHANGED <<run, nodeMajor, argv, info, dir, dirAtStart, dirAtCheck, cwd,
                   fallbackInvoked, latest, createAppCalled, useYarn, npmCwd,
                   npmVersion, safe, reportedConflicts, child, runPromise>>

\* envinfo.run(...).then(console.log)
EnvInfoThen ==
    /\ pc = "envinfo"
    /\ exit(0, <<"envinfo report">>)
    /\ UNCHANGED <<run, nodeMajor, argv, info, dir, dirAtStart, dirAtCheck, cwd,
                   registry, gitInstalled, fallbackInvoked, latest,
                   createAppCalled, useYarn, npmCwd, npmVersion, safe,
                   reportedConflicts, child, runPromise>>

(***************************************************************************)
(* The .catch continuation: the fallback to "npm view"                     *)
(***************************************************************************)
CatchHandler ==
    /\ pc = "catch"
    /\ registry = "rejected"
    /\ \E result \in NpmViewResults :
        /\ fallbackInvoked' = TRUE
        /\ latest' = result
    /\ pc' = "then"
    /\ UNCHANGED <<run, nodeMajor, argv, info, dir, dirAtStart, dirAtCheck,
                   exitCode, out, cwd, registry, gitInstalled,
                   createAppCalled, useYarn, npmCwd, npmVersion, safe,
                   reportedConflicts, child, runPromise>>

(***************************************************************************)
(* The .then continuation: the version gate, createApp and run             *)
(***************************************************************************)
\* `latest &&`: null and "" are falsy
isTruthy(l) == l.kind \in {"version", "invalid"}

\* semver.lt(packageJson.version, latest) throws a TypeError
ltThrows(l) == isTruthy(l) /\ l.kind = "invalid"

\* Faulty variant: the arguments of semver.lt exchanged
isBehindLatest_swapped(l) == isTruthy(l) /\ semverLt(l.v, packageJsonVersion)

\* Faulty variant: an unknown latest version stops the run
isBehindLatest_nullFatal(l) ==
    l.kind = "null" \/ (isTruthy(l) /\ semverLt(packageJsonVersion, l.v))

\* latest && semver.lt(packageJson.version, latest), where it does not throw
isBehindLatest(l) == isTruthy(l) /\ semverLt(packageJsonVersion, l.v)

\* Faulty variant: only a matching "; cwd = " line lets the run go on
checkThatNpmCanReadCwd_strict(probe) == probe = "same cwd"

\* checkThatNpmCanReadCwd()
checkThatNpmCanReadCwd(probe) == probe # "other cwd"

\* checkNpmVersion().hasMinNpm
hasMinNpm(probe) == probe.kind = "version" /\ semverGte(probe.v, MinNpmVersion)

\* The warning createApp prints for an npm below the minimum
npmWarning(probe) ==
    IF ~hasMinNpm(probe) /\ probe.kind = "version"
    THEN <<NpmOldWarning>>
    ELSE <<>>

\* What isSafeToCreateProjectIn prints for a conflict: directories get a "/"
conflictLine(file) ==
    IF file \in DirectoryEntries THEN file \o <<"/">> ELSE file

\* Faulty variant: the child is spawned in the directory the tool was started in
spawnChild_noChdir(workdir) ==
    [spawned |-> child.spawned + 1, command |-> command, args |-> args,
     cwd |-> "original", closed |-> FALSE, code |-> -1]

\* run(): the child process as spawn() starts it
spawnChild(workdir) ==
    [spawned |-> child.spawned + 1, command |-> command, args |-> args,
     cwd |-> workdir, closed |-> FALSE, code |-> -1]

\* createApp(name, ...) up to the call of run()
createApp(name, yarn, cwdProbe, versionProbe) ==
    LET appName == basename(name)
        ensured == [exists |-> TRUE, entries |-> dir.entries]
        checked == [exists |-> TRUE, entries |-> afterSafetyCheck(dir.entries)]
    IN
    /\ createAppCalled' = TRUE
    /\ IF nodeMajor < MinNodeMajor
       THEN /\ exit(1, <<"You are using an unsupported Node">>)
            /\ UNCHANGED <<dir, dirAtCheck, cwd, useYarn, npmCwd, npmVersion,
                           safe, reportedConflicts, child, runPromise>>
       ELSE IF ~checkAppName(appName)
       THEN /\ exit(1, <<checkAppNameMessage(appName).msg>>)
            /\ UNCHANGED <<dir, dirAtCheck, cwd, useYarn, npmCwd, npmVersion,
                           safe, reportedConflicts, child, runPromise>>
       ELSE IF ~isSafeToCreateProjectIn(dir.entries)
       THEN /\ dir' = checked
            /\ dirAtCheck' = ensured
            /\ safe' = "no"
            /\ reportedConflicts' =
                   {conflictLine(file) : file \in conflicts(dir.entries)}
            /\ exit(1, <<ConflictNotice>>)
            /\ UNCHANGED <<cwd, useYarn, npmCwd, npmVersion, child, runPromise>>
       ELSE /\ dir' = checked
            /\ dirAtCheck' = ensured
            /\ safe' = "yes"
            /\ cwd' = "root"
            /\ useYarn' = IF yarn THEN "yes" ELSE "no"
            /\ UNCHANGED reportedConflicts
            /\ IF ~yarn /\ ~checkThatNpmCanReadCwd(cwdProbe)
               THEN /\ npmCwd' = cwdProbe
                    /\ exit(1, <<CreatingNotice, NpmCwdError>>)
                    /\ UNCHANGED <<npmVersion, child, runPromise>>
               ELSE /\ npmCwd' = IF yarn THEN npmCwd ELSE cwdProbe
                    /\ npmVersion' = IF yarn THEN npmVersion ELSE versionProbe
                    /\ child' = spawnChild("root")
                    /\ runPromise' = "pending"
                    /\ pc' = "cloning"
                    /\ out' = out \o <<CreatingNotice>>
                                  \o (IF yarn THEN <<>> ELSE npmWarning(versionProbe))
                    /\ UNCHANGED exitCode

ThenHandler ==
    /\ pc = "then"
    /\ \E yarn \in BOOLEAN, cwdProbe \in NpmCwdProbes,
          versionProbe \in NpmVersionProbes :
        IF ltThrows(latest)
        THEN \* the rejection has no handler: Node ends the process with code 1
             /\ exit(1, <<InvalidVersionError>>)
             /\ UNCHANGED <<dir, dirAtCheck, cwd, createAppCalled, useYarn,
                            npmCwd, npmVersion, safe, reportedConflicts, child,
                            runPromise>>
        ELSE IF isBehindLatest(latest)
        THEN /\ exit(0, <<UpgradeNotice>>)
             /\ UNCHANGED <<dir, dirAtCheck, cwd, createAppCalled, useYarn,
                            npmCwd, npmVersion, safe, reportedConflicts, child,
                            runPromise>>
        ELSE createApp(argv[1], yarn, cwdProbe, versionProbe)
    /\ UNCHANGED <<run, nodeMajor, argv, info, dirAtStart, registry, gitInstalled,
                   fallbackInvoked, latest>>

(***************************************************************************)
(* The clone child and the promise of run()                                *)
(***************************************************************************)
\* child.on("close", (code) => ...): the child has written what it wrote
ChildClose ==
    /\ pc = "cloning"
    /\ \E ending \in CloneEndings(dir.entries) :
        /\ child' = [child EXCEPT !.closed = TRUE, !.code = ending.code]
        /\ dir' = [dir EXCEPT !.entries = dir.entries \cup ending.written]
        /\ runPromise' = IF ending.code # 0 THEN "rejected" ELSE "resolved"
    /\ pc' = "settled"
    /\ UNCHANGED <<run, nodeMajor, argv, info, dirAtStart, dirAtCheck, exitCode, out,
                   cwd, registry, gitInstalled, fallbackInvoked, latest,
                   createAppCalled, useYarn, npmCwd, npmVersion, safe,
                   reportedConflicts>>

\* run(...).then(() => { console.log(chalk.green("Done!")) ... })
RunThen ==
    /\ pc = "settled"
    /\ runPromise = "resolved"
    /\ exit(0, <<DoneMessage, "To get started:">>)
    /\ UNCHANGED <<run, nodeMajor, argv, info, dir, dirAtStart, dirAtCheck, cwd,
                   registry, gitInstalled, fallbackInvoked, latest,
                   createAppCalled, useYarn, npmCwd, npmVersion, safe,
                   reportedConflicts, child, runPromise>>

\* The rejection of run() has no handler: Node (16 and later) prints the
\* reason as "#<Object>" and ends the process with code 1
RunUnhandledRejection ==
    /\ pc = "settled"
    /\ runPromise = "rejected"
    /\ exit(1, <<UnhandledRejectionError>>)
    /\ UNCHANGED <<run, nodeMajor, argv, info, dir, dirAtStart, dirAtCheck, cwd,
                   registry, gitInstalled, fallbackInvoked, latest,
                   createAppCalled, useYarn, npmCwd, npmVersion, safe,
                   reportedConflicts, child, runPromise>>

(***************************************************************************)
(* The tool invoked again on the same name after a killed clone            *)
(***************************************************************************)
\* A new process: the entry script starts over with the same arguments. The
\* target directory is as the earlier run left it, or was emptied by hand
Rerun ==
    /\ Terminated
    /\ child.closed
    /\ child.code = -1
    /\ run < MaxRuns
    /\ run' = run + 1
    /\ \E emptied \in BOOLEAN :
        dir' = IF emptied THEN [dir EXCEPT !.entries = {}] ELSE dir
    /\ dirAtStart' = dir'
    /\ dirAtCheck' = dir'
    /\ pc' = "start"
    /\ exitCode' = -1
    /\ out' = <<>>
    /\ cwd' = "original"
    /\ registry' = "none"
    /\ gitInstalled' = "unknown"
    /\ fallbackInvoked' = FALSE
    /\ latest' = Unresolved
    /\ createAppCalled' = FALSE
    /\ useYarn' = "unknown"
    /\ npmCwd' = "unprobed"
    /\ npmVersion' = Unprobed
    /\ safe' = "unchecked"
    /\ reportedConflicts' = {}
    /\ child' = NoChild
    /\ runPromise' = "none"
    /\ UNCHANGED <<nodeMajor, argv, info>>

Next ==
    \/ Main
    \/ EnvInfoThen
    \/ CatchHandler
    \/ ThenHandler
    \/ ChildClose
    \/ RunThen
    \/ RunUnhandledRejection
    \/ Rerun

Spec == Init /\ [][Next]_vars

\* Node runs every pending continuation and delivers the child's close event
FairSpec == Spec /\ WF_vars(Next)

(***************************************************************************)
(* checkAppName on its own, over a universe of names                       *)
(***************************************************************************)
\* The characters of the generated names: letters, a capital, a digit, the
\* hyphen, and characters the validator treats specially
NameAlphabet == {"f", "s", "A", "1", "-", ".", "_", " ", "~", "/", "@"}

\* Longer names of interest
ExtraNames ==
    {N_my_app, N_MyApp, N_react, N_react_dom, N_react_scripts, N_React,
     N_REACT_DOM, N_http, N_https, N_path, N_events, N_child_process,
     N_node_modules, N_favicon_ico, N_scoped, N_sub_app, N_dot_app}

NameUniverse ==
    UNION {[1..k -> NameAlphabet] : k \in 0..MaxNameLen} \cup ExtraNames

NameInit ==
    /\ run = 1
    /\ nodeMajor = MinNodeMajor
    /\ argv \in {<<n>> : n \in NameUniverse}
    /\ info = FALSE
    /\ dir = [exists |-> FALSE, entries |-> {}]
    /\ dirAtStart = dir
    /\ dirAtCheck = dir
    /\ pc = "start"
    /\ exitCode = -1
    /\ out = <<>>
    /\ cwd = "original"
    /\ registry = "none"
    /\ gitInstalled = "unknown"
    /\ fallbackInvoked = FALSE
    /\ latest = Unresolved
    /\ createAppCalled = FALSE
    /\ useYarn = "unknown"
    /\ npmCwd = "unprobed"
    /\ npmVersion = Unprobed
    /\ safe = "unchecked"
    /\ reportedConflicts = {}
    /\ child = NoChild
    /\ runPromise = "none"

\* checkAppName(appName), called with the name as it is
CheckAppNameStep ==
    /\ pc = "start"
    /\ IF checkAppName(argv[1])
       THEN /\ pc' = "name checked"
            /\ UNCHANGED <<exitCode, out>>
       ELSE exit(1, <<checkAppNameMessage(argv[1]).msg>>)
    /\ UNCHANGED <<run, nodeMajor, argv, info, dir, dirAtStart, dirAtCheck, cwd,
                   registry, gitInstalled, fallbackInvoked, latest,
                   createAppCalled, useYarn, npmCwd, npmVersion, safe,
                   reportedConflicts, child, runPromise>>

NameNext == CheckAppNameStep

NameSpec == NameInit /\ [][NameNext]_vars

(***************************************************************************)
(* Properties                                                              *)
(***************************************************************************)
\* The run printed m
Printed(m) == \E i \in 1..Len(out) : out[i] = m

\* Version w is strictly newer than version v
StrictlyNewer(w, v) ==
    \/ w[1] > v[1]
    \/ w[1] = v[1] /\ w[2] > v[2]
    \/ w[1] = v[1] /\ w[2] = v[2] /\ w[3] > v[3]

\* The resolved latest version is strictly newer than the running tool
ResolvedNewer ==
    latest.kind = "version" /\ StrictlyNewer(latest.v, packageJsonVersion)

\* The project name of the run passes the two checks of the name
NameIsValid ==
    /\ argv # <<>>
    /\ validForNewPackages(basename(argv[1]))
    /\ basename(argv[1]) \notin {N_react, N_react_dom, N_react_scripts}

\* C1: when the resolved latest version is strictly newer than the running
\* version, createApp is never called and the clone is never spawned, and
\* once the version continuation has run the upgrade notice is printed and
\* the run has ended with exit code 0.
C1_VersionGate ==
    ResolvedNewer =>
        /\ ~createAppCalled
        /\ child.spawned = 0
        /\ pc # "then" =>
              /\ Terminated
              /\ exitCode = 0
              /\ Printed(UpgradeNotice)

C1_Witness ==
    /\ ResolvedNewer
    /\ Terminated
    /\ exitCode = 0
    /\ Printed(UpgradeNotice)

\* C2: in every run that the git check lets through, the rejected registry
\* query is followed by the fallback command; when the fallback fails too the
\* resolved version is null, and the run then enters createApp and ends for no
\* reason of the resolution: the clone is spawned unless the name check, the
\* directory check or the npm directory probe stops the run.
C2_SoftGate ==
    /\ (registry = "rejected" /\ gitInstalled = "yes" /\ pc # "catch")
           => fallbackInvoked
    /\ (fallbackInvoked /\ latest.kind = "null" /\ pc # "then")
           => /\ createAppCalled
              /\ ~Printed(UpgradeNotice)
              /\ ~Printed(InvalidVersionError)
              /\ child.spawned = 1
                    <=> (/\ NameIsValid
                         /\ safe = "yes"
                         /\ ~(useYarn = "no" /\ npmCwd = "other cwd"))

C2_Witness ==
    /\ registry = "rejected"
    /\ fallbackInvoked
    /\ latest.kind = "null"
    /\ createAppCalled
    /\ child.spawned = 1
    /\ pc = "cloning"

\* C3: when "git --version" fails the run has ended with exit code 1 in the
\* synchronous part of init: the version continuations never ran, the target
\* directory is as it was (never created) and the clone was never spawned.
C3_GitMissingFatal ==
    gitInstalled = "no" =>
        /\ Terminated
        /\ exitCode = 1
        /\ ~fallbackInvoked
        /\ latest = Unresolved
        /\ ~createAppCalled
        /\ dir = dirAtStart
        /\ child.spawned = 0

C3_Witness ==
    /\ gitInstalled = "no"
    /\ argv # <<>>
    /\ ~dirAtStart.exists
    /\ Terminated
    /\ exitCode = 1
    /\ Printed(GitMissingError)

\* The entry is none of: allow-listed, an .iml file, an error log
IsConflicting(file) ==
    /\ file \notin validFiles
    /\ ~endsWith(file, ImlSuffix)
    /\ ~startsWith(file, P_npm_debug_log)
    /\ ~startsWith(file, P_yarn_error_log)
    /\ ~startsWith(file, P_yarn_debug_log)

\* The name of the entry starts with one of the three error log names
HasErrorLogPrefix(file) ==
    \/ startsWith(file, P_npm_debug_log)
    \/ startsWith(file, P_yarn_error_log)
    \/ startsWith(file, P_yarn_debug_log)

\* The version gate found the running tool behind the latest release
IsStale == ResolvedNewer

\* C4 as claimed: a run given a name that fails validation ends with exit code
\* 1 and without the target directory created, whatever the other checks find.
C4_InvalidNameAlwaysFails ==
    (argv # <<>> /\ ~info /\ ~NameIsValid /\ Terminated)
        => (exitCode = 1 /\ dir = dirAtStart)

\* C4 as amended: a run given a name that fails validation never creates the
\* target directory and never spawns the clone; it ends with exit code 1,
\* except that a stale version ends it with exit code 0 before the name is
\* looked at.
C4_InvalidNameNoDirectory ==
    (argv # <<>> /\ ~info /\ ~NameIsValid)
        => /\ dir = dirAtStart
           /\ child.spawned = 0
           /\ Terminated => exitCode = (IF IsStale THEN 0 ELSE 1)

C4_Witness ==
    /\ argv # <<>>
    /\ ~NameIsValid
    /\ createAppCalled
    /\ ~dirAtStart.exists
    /\ ~dir.exists
    /\ Terminated
    /\ exitCode = 1

\* The command line of the child as it was spawned
InvokedCommandLine == child.command \o " " \o join(child.args)

\* C5 as claimed: when the clone child closes with a nonzero code the run ends
\* with exit code 1, the failed command line that is reported is the invoked
\* clone command, "Done!" is not printed and the directory is not cleaned up.
C5_CloneFailureReported ==
    (child.closed /\ child.code # 0 /\ Terminated)
        => /\ exitCode = 1
           /\ InvokedCommandLine = commandLine
           /\ \/ Printed(InvokedCommandLine)
              \/ Printed(InvokedCommandLine \o " has failed.")
           /\ ~Printed(DoneMessage)
           /\ dir.exists
           /\ afterSafetyCheck(dirAtCheck.entries) \subseteq dir.entries

\* C6: when the directory holds an entry that is not allow-listed, not an .iml
\* file and not an error log, isSafeToCreateProjectIn returns false, lists
\* exactly those entries (directories with a "/"), leaves the directory as it
\* found it, and the run ends with exit code 1 without a clone.
C6_UnsafeDirectory ==
    (safe # "unchecked" /\ \E f \in dirAtCheck.entries : IsConflicting(f))
        => /\ safe = "no"
           /\ reportedConflicts =
                  {IF f \in DirectoryEntries THEN f \o <<"/">> ELSE f :
                      f \in {g \in dirAtCheck.entries : IsConflicting(g)}}
           /\ dir = dirAtCheck
           /\ Terminated
           /\ exitCode = 1
           /\ child.spawned = 0

C6_Witness ==
    /\ safe = "no"
    /\ \E f \in dirAtCheck.entries : IsConflicting(f)
    /\ \E f \in dirAtCheck.entries : HasErrorLogPrefix(f)
    /\ dir = dirAtCheck
    /\ Terminated
    /\ exitCode = 1

\* The directory after the check, while the clone child has written nothing
DirAfterCheck == safe = "yes" /\ ~child.closed

\* C7 as claimed: when every entry is allow-listed, an .iml file or an error
\* log, isSafeToCreateProjectIn returns true and leaves the directory minus
\* exactly the entries with an error log prefix; every allow-listed entry and
\* every .iml file is kept.
C7_SafeDirectoryKeepsEveryIml ==
    (safe # "unchecked" /\ \A f \in dirAtCheck.entries : ~IsConflicting(f))
        => /\ safe = "yes"
           /\ DirAfterCheck =>
                 /\ dir.entries =
                        {f \in dirAtCheck.entries : ~HasErrorLogPrefix(f)}
                 /\ \A f \in dirAtCheck.entries :
                        (f \in validFiles \/ endsWith(f, ImlSuffix))
                            => f \in dir.entries

\* C7 as amended: the same, but an .iml file is kept only if its name does not
\* start with an error log prefix (npm-debug.log.iml is removed as a log).
C7_SafeDirectory ==
    (safe # "unchecked" /\ \A f \in dirAtCheck.entries : ~IsConflicting(f))
        => /\ safe = "yes"
           /\ DirAfterCheck =>
                 /\ dir.entries =
                        {f \in dirAtCheck.entries : ~HasErrorLogPrefix(f)}
                 /\ \A f \in dirAtCheck.entries :
                        (\/ f \in validFiles
                         \/ endsWith(f, ImlSuffix) /\ ~HasErrorLogPrefix(f))
                            => f \in dir.entries

C7_Witness ==
    /\ DirAfterCheck
    /\ \E f \in dirAtCheck.entries : HasErrorLogPrefix(f) /\ f \notin dir.entries
    /\ \E f \in dirAtCheck.entries : endsWith(f, ImlSuffix) /\ f \in dir.entries

\* The preconditions of the successful run: a valid name, no target directory
\* before the run, the latest version equal to the running one (so git was
\* found), and no clone child that closes with a nonzero code
SuccessInputs ==
    /\ NameIsValid
    /\ ~dirAtStart.exists
    /\ gitInstalled = "yes"
    /\ latest = [kind |-> "version", v |-> packageJsonVersion]
    /\ child.closed => child.code = 0

\* The run reached Done
ReachedDone ==
    /\ Terminated
    /\ exitCode = 0
    /\ dir.exists
    /\ child.spawned = 1
    /\ child.cwd = "root"
    /\ cwd = "root"
    /\ child.closed
    /\ child.code = 0
    /\ Printed(DoneMessage)

\* npm was probed and showed another working directory
NpmCwdMismatch == useYarn = "no" /\ npmCwd = "other cwd"

\* C8 as claimed: a run with the inputs of the successful run that has ended
\* has reached Done.
C8_SuccessAlwaysDone == (Terminated /\ SuccessInputs) => ReachedDone

\* C8 as amended: every run ends; a run with the inputs of the successful run
\* in which npm does not show another working directory ends in Done, with the
\* directory created, one clone spawned in the target directory and exit code
\* 0; and "Done!" is printed only after the clone has closed with code 0.
C8_SuccessReachesDone ==
    /\ <>Terminated
    /\ []((Terminated /\ SuccessInputs /\ ~NpmCwdMismatch) => ReachedDone)
    /\ [](Printed(DoneMessage) => (child.closed /\ child.code = 0))

C8_Witness ==
    /\ SuccessInputs
    /\ ~NpmCwdMismatch
    /\ ReachedDone
    /\ TemplateEntries \subseteq dir.entries

\* The name matches ^[a-z0-9-]+$
MatchesLowerPattern(name) ==
    /\ Len(name) >= 1
    /\ \A i \in 1..Len(name) :
           name[i] \in LowerCaseLetters \cup Digits \cup {"-"}

ReservedNames == {N_react, N_react_dom, N_react_scripts}

HasUpperCase(name) == \E i \in 1..Len(name) : name[i] \in UpperCaseLetters

\* C9 as claimed: checkAppName returns for every name matching ^[a-z0-9-]+$
\* that is not reserved, and exits with code 1 for every name that holds a
\* capital letter or is a reserved name in any letter case.
C9_LowerPatternAccepted ==
    pc # "start" =>
        /\ (MatchesLowerPattern(argv[1]) /\ argv[1] \notin ReservedNames)
               => pc = "name checked"
        /\ (HasUpperCase(argv[1]) \/ toLowerCase(argv[1]) \in ReservedNames)
               => (Terminated /\ exitCode = 1)

\* C9 as amended: checkAppName returns for every name matching ^[a-z0-9-]+$
\* that is not reserved, is not the name of a Node core module and is at most
\* 214 characters long; the second half is as claimed.
C9_NameValidation ==
    pc # "start" =>
        /\ (/\ MatchesLowerPattern(argv[1])
            /\ argv[1] \notin ReservedNames
            /\ argv[1] \notin builtins
            /\ Len(argv[1]) <= MaxPackageNameLength)
               => pc = "name checked"
        /\ (HasUpperCase(argv[1]) \/ toLowerCase(argv[1]) \in ReservedNames)
               => (Terminated /\ exitCode = 1)

C9_Witness ==
    /\ pc = "name checked"
    /\ MatchesLowerPattern(argv[1])
    /\ \E i \in 1..Len(argv[1]) : argv[1][i] = "-"
    /\ \E i \in 1..Len(argv[1]) : argv[1][i] \in Digits

\* C10 as claimed: once the name check, the directory check and the version
\* gate have passed and git is installed, the clone child is spawned whatever
\* the package manager probes find.
C10_ProbesNeverBlock == (safe = "yes" /\ gitInstalled = "yes") => child.spawned = 1

\* C10 as amended: in that situation a missing npm or an npm below the minimum
\* does not end the run, but the npm working directory probe does: when yarn
\* is not in use and npm shows another working directory the run ends with exit
\* code 1 and no clone; in every other case the clone child is spawned.
C10_OnlyCwdProbeBlocks ==
    (safe = "yes" /\ gitInstalled = "yes") =>
        IF NpmCwdMismatch
        THEN /\ Terminated
             /\ exitCode = 1
             /\ Printed(NpmCwdError)
             /\ child.spawned = 0
        ELSE child.spawned = 1

C10_Witness ==
    /\ safe = "yes"
    /\ useYarn = "no"
    /\ npmVersion = [kind |-> "version", v |-> <<5, 10, 0>>]
    /\ Printed(NpmOldWarning)
    /\ child.spawned = 1

\* A later run on the same name has reached the directory check, and the
\* directory held what the killed clone left (it was not emptied)
RerunOnPartialState ==
    /\ run > 1
    /\ dirAtStart.entries # {}
    /\ safe # "unchecked"

\* The run was rejected by the directory check
RejectedByDirectoryCheck ==
    /\ safe = "no"
    /\ Terminated
    /\ exitCode = 1
    /\ child.spawned = 0

\* C11 as claimed: after a killed clone left anything in the target directory
\* (be it only .git), the next run on the same name that reaches the directory
\* check is rejected there: exit code 1 and no second clone.
C11_RerunAlwaysRejected == RerunOnPartialState => RejectedByDirectoryCheck

\* C11 as amended: the next run is rejected by the directory check exactly
\* when the killed clone left an entry that is not allow-listed (such as
\* package.json); a directory holding only allow-listed entries (.git, or .git
\* and README.md) passes the check and the clone is spawned again, unless the
\* npm working directory probe ends the run. An emptied directory passes.
C11_RerunRejectedOnConflict ==
    /\ RerunOnPartialState =>
          IF \E f \in dirAtStart.entries : IsConflicting(f)
          THEN RejectedByDirectoryCheck
          ELSE /\ safe = "yes"
               /\ NpmCwdMismatch \/ child.spawned = 1
    /\ (run > 1 /\ dirAtStart.entries = {} /\ safe # "unchecked")
          => safe = "yes"

C11_Witness ==
    /\ run = 2
    /\ dirAtStart.entries = {F_git, F_package_json}
    /\ RejectedByDirectoryCheck
    /\ reportedConflicts = {F_package_json}

====
